---- MODULE Spec2Model ----
(***************************************************************************)
(* State-machine model of etl_script/02_load_csv.py: the script that reads *)
(* three CSV files into data frames, resets the staging schema inside one  *)
(* transaction and uploads each frame with DataFrame.to_sql.               *)
(*                                                                         *)
(* The script is modelled statement by statement (Program).  The store is  *)
(* the PostgreSQL database behind DB_URL: `committed` is what any other    *)
(* session can read, `work` is the view of the script's open transaction.  *)
(***************************************************************************)
EXTENDS Integers, Sequences, FiniteSets, TLC

\* Largest number of data rows of a source file.
MaxRows == 1
\* Number of times the script is run in succession on the same store.
MaxRuns == 2

VARIABLES
    files,      \* the CSV file behind every path of CSV_PATHS
    pc,         \* index in Program of the statement to execute next
    status,     \* "running", "done" (fell off the end) or "aborted" (uncaught exception)
    dfs,        \* the module's data-frame variables df_tx, df_spend, df_promo
    engine,     \* TRUE once `engine` is bound by create_engine
    pool,       \* the engine's connection pool: open and checked-out DBAPI connections
    inTxn,      \* TRUE inside the `with engine.begin()` block
    work,       \* the store as seen by the script's open transaction
    dropIdx,    \* next table of the DROP TABLE statement's list to be dropped
    committed,  \* the store as seen by every other session
    out,        \* lines printed so far
    log,        \* history: the steps executed by this run, with their outcome
    prior,      \* history: the committed store when this run started
    prevDone,   \* history: the run before this one ended successfully
    lastDone,   \* history: the committed store at the end of the run before this one
    runs        \* number of runs started

vars == <<files, pc, status, dfs, engine, pool, inTxn, work, dropIdx, committed,
          out, log, prior, prevDone, lastDone, runs>>

-----------------------------------------------------------------------------
\* Configuration

\* The keys of CSV_PATHS.
CSV_PATHS == {"transactions", "campaigns", "spend", "promo"}

\* The data-frame variable each read_csv call assigns, by CSV_PATHS key.
FrameOf == [transactions |-> "df_tx", spend |-> "df_spend", promo |-> "df_promo"]

\* The tables named by the DROP TABLE statement and by the to_sql calls.
DestTables == {"stg_transactions", "stg_channel_spend_daily", "stg_promotion_reference"}

\* The table each loaded CSV_PATHS key is uploaded to (read_csv -> frame -> to_sql).
DestOf == [transactions |-> "stg_transactions",
           spend        |-> "stg_channel_spend_daily",
           promo        |-> "stg_promotion_reference"]

\* A table of schema staging that no statement of the script names.
OrphanTable == "stg_legacy"
\* A table of another schema of the same database.
OutsideTable == "public_orders"

StagingTables == DestTables \cup {OrphanTable}
AllTables == StagingTables \cup {OutsideTable}

SuccessMsg == "Step 2 completed successfully."

-----------------------------------------------------------------------------
\* Values

Absent == [exists |-> FALSE, cols |-> <<>>, rows |-> <<>>]
Missing == [exists |-> FALSE, lines |-> <<>>]
NoFrame == [loaded |-> FALSE, columns |-> <<>>, rows |-> <<>>]

\* A CSV file of key k: a header line and n data lines.
CsvFile(k, n) == [exists |-> TRUE,
                  lines  |-> <<(<<k, "value">>)>> \o [i \in 1..n |-> <<i, i * 10>>]]
\* A file that exists and holds no line at all, not even a header.
EmptyFile == [exists |-> TRUE, lines |-> <<>>]

FileChoices(k) == {Missing, EmptyFile} \cup {CsvFile(k, n) : n \in 0..MaxRows}

\* A table left in the store by somebody else or by an earlier load.
OldTable(t) == [exists |-> TRUE, cols |-> <<t, "old">>, rows |-> <<(<<0, 0>>)>>]

\* pd.read_csv: raises for a missing file and for a file without a header line.
CanRead(f) == f.exists /\ Len(f.lines) > 0
ReadCsv(f) == [loaded |-> TRUE, columns |-> Head(f.lines), rows |-> Tail(f.lines)]

\* The table DataFrame.to_sql leaves, given the table found under that name.
ToSql(existing, df, mode, index) ==
    LET cols == IF index THEN <<"index">> \o df.columns ELSE df.columns
        rows == IF index
                THEN [i \in 1..Len(df.rows) |-> <<i - 1>> \o df.rows[i]]
                ELSE df.rows
    IN  IF existing.exists /\ mode = "append"
        THEN [existing EXCEPT !.rows = existing.rows \o rows]
        ELSE [exists |-> TRUE, cols |-> cols, rows |-> rows]

\* The empty table a to_sql that fails after its CREATE TABLE can leave.
CreatedEmpty(df, index) ==
    [exists |-> TRUE,
     cols   |-> IF index THEN <<"index">> \o df.columns ELSE df.columns,
     rows   |-> <<>>]

\* Objects that depend on table t: a view over it, a foreign key of
\* OutsideTable that references it.
HasDependents(s, t) == t \in s.views \/ t \in s.fks

\* DROP TABLE IF EXISTS t [CASCADE] applied to store s.
DropTableCascadeRows(s, t) ==
    IF ~s.tables[t].exists THEN s
    ELSE [s EXCEPT !.tables = [u \in AllTables |->
                        IF u = t \/ (u = OutsideTable /\ t \in s.fks)
                        THEN Absent ELSE s.tables[u]],
                   !.views = @ \ {t}, !.fks = @ \ {t}]

DropTable(s, t) ==
    IF ~s.tables[t].exists THEN s
    ELSE [s EXCEPT !.tables[t] = Absent, !.views = @ \ {t}, !.fks = @ \ {t}]

CanDrop(s, t, cascade) == cascade \/ ~s.tables[t].exists \/ ~HasDependents(s, t)

-----------------------------------------------------------------------------
\* The script

Stmt(op, key, table, tables, mode) ==
    [op |-> op, key |-> key, table |-> table, tables |-> tables, mode |-> mode]

DropList == <<"stg_transactions", "stg_channel_spend_daily", "stg_promotion_reference">>

\* A variant of the script that loads by appending: no DROP TABLE statement,
\* to_sql(if_exists="append").
ProgramAppend ==
    << Stmt("create_engine", "", "", <<>>, ""),
       Stmt("print", "", "", <<>>, "Loading CSVs into staging schema..."),
       Stmt("read_csv", "transactions", "", <<>>, ""),
       Stmt("read_csv", "spend", "", <<>>, ""),
       Stmt("read_csv", "promo", "", <<>>, ""),
       Stmt("begin", "", "", <<>>, ""),
       Stmt("create_schema", "", "", <<>>, ""),
       Stmt("drop_tables", "", "", <<>>, "cascade"),
       Stmt("commit", "", "", <<>>, ""),
       Stmt("to_sql", "transactions", "stg_transactions", <<>>, "append"),
       Stmt("to_sql", "spend", "stg_channel_spend_daily", <<>>, "append"),
       Stmt("to_sql", "promo", "stg_promotion_reference", <<>>, "append"),
       Stmt("print", "", "", <<>>, "CSVs loaded to staging."),
       Stmt("print", "", "", <<>>, SuccessMsg) >>

\* A variant of the script that reads each file right before uploading it.
ProgramLazyRead ==
    << Stmt("create_engine", "", "", <<>>, ""),
       Stmt("print", "", "", <<>>, "Loading CSVs into staging schema..."),
       Stmt("begin", "", "", <<>>, ""),
       Stmt("create_schema", "", "", <<>>, ""),
       Stmt("drop_tables", "", "", DropList, "cascade"),
       Stmt("commit", "", "", <<>>, ""),
       Stmt("read_csv", "transactions", "", <<>>, ""),
       Stmt("to_sql", "transactions", "stg_transactions", <<>>, "replace"),
       Stmt("read_csv", "spend", "", <<>>, ""),
       Stmt("to_sql", "spend", "stg_channel_spend_daily", <<>>, "replace"),
       Stmt("read_csv", "promo", "", <<>>, ""),
       Stmt("to_sql", "promo", "stg_promotion_reference", <<>>, "replace"),
       Stmt("print", "", "", <<>>, "CSVs loaded to staging."),
       Stmt("print", "", "", <<>>, SuccessMsg) >>

\* The module body, lines 22 to 42, one entry per statement; the exit of the
\* `with engine.begin()` block is the entry "commit".
Program ==
    << Stmt("create_engine", "", "", <<>>, ""),
       Stmt("print", "", "", <<>>, "Loading CSVs into staging schema..."),
       Stmt("read_csv", "transactions", "", <<>>, ""),
       Stmt("read_csv", "spend", "", <<>>, ""),
       Stmt("read_csv", "promo", "", <<>>, ""),
       Stmt("begin", "", "", <<>>, ""),
       Stmt("create_schema", "", "", <<>>, ""),
       Stmt("drop_tables", "", "", DropList, "cascade"),
       Stmt("commit", "", "", <<>>, ""),
       Stmt("to_sql", "transactions", "stg_transactions", <<>>, "replace"),
       Stmt("to_sql", "spend", "stg_channel_spend_daily", <<>>, "replace"),
       Stmt("to_sql", "promo", "stg_promotion_reference", <<>>, "replace"),
       Stmt("print", "", "", <<>>, "CSVs loaded to staging."),
       Stmt("print", "", "", <<>>, SuccessMsg) >>

\* The phase a statement belongs to, as named in error reports.
PhaseOf(op) ==
    CASE op \in {"create_engine", "begin"} -> "connect"
      [] op = "create_schema"              -> "namespace"
      [] op \in {"drop_tables", "commit"}  -> "drop"
      [] op = "read_csv"                   -> "read"
      [] op = "to_sql"                     -> "write"
      [] OTHER                             -> "print"

Cur == Program[pc]
At(op) == status = "running" /\ pc <= Len(Program) /\ Cur.op = op

Entry(ok) == [stmt |-> pc, phase |-> PhaseOf(Cur.op), ok |-> ok]

\* The statement at pc completed: control moves to the next statement, and
\* falls off the end of the module after the last one.
Advance ==
    /\ pc' = pc + 1
    /\ status' = IF pc = Len(Program) THEN "done" ELSE "running"
    /\ log' = Append(log, Entry(TRUE))

\* The statement at pc raised: nothing catches it, the interpreter exits.
Raise ==
    /\ pc' = pc
    /\ status' = "aborted"
    /\ log' = Append(log, Entry(FALSE))

-----------------------------------------------------------------------------
\* Initial state: any store the script can be pointed at, any source files

\* A view can only be over, and a foreign key can only reference, a table
\* that exists; tables of schema staging exist only if the schema does.
StoreOk(s) ==
    /\ \A t \in s.views \cup s.fks : s.tables[t].exists
    /\ s.fks # {} => s.tables[OutsideTable].exists
    /\ (\E t \in StagingTables : s.tables[t].exists) => s.schema

Stores ==
    { s \in [schema : BOOLEAN,
             tables : { f \in [AllTables -> {Absent} \cup {OldTable(t) : t \in AllTables}] :
                          /\ \A t \in AllTables : f[t].exists => f[t] = OldTable(t)
                          /\ f[OutsideTable].exists },
             views  : SUBSET {"stg_transactions"},
             fks    : SUBSET {"stg_promotion_reference"}] : StoreOk(s) }

\* The state of a process that is about to execute the first statement.
NoFrames == [v \in {"df_tx", "df_spend", "df_promo"} |-> NoFrame]
EmptyPool == [open |-> 0, checkedOut |-> 0]

Init ==
    /\ files \in { f \in [CSV_PATHS -> UNION {FileChoices(k) : k \in CSV_PATHS}] :
                     /\ \A k \in DOMAIN FrameOf : f[k] \in FileChoices(k)
                     /\ f["campaigns"] = CsvFile("campaigns", 0) }
    /\ committed \in Stores
    /\ work = committed
    /\ prior = committed
    /\ lastDone = committed
    /\ prevDone = FALSE
    /\ runs = 1
    /\ pc = 1
    /\ status = "running"
    /\ dfs = NoFrames
    /\ engine = FALSE
    /\ pool = EmptyPool
    /\ inTxn = FALSE
    /\ dropIdx = 1
    /\ out = <<>>
    /\ log = <<>>

-----------------------------------------------------------------------------
\* Statements

\* engine = create_engine(DB_URL): builds the engine and its empty pool; no
\* connection is opened yet.
CreateEngine ==
    /\ At("create_engine")
    /\ engine' = TRUE
    /\ Advance
    /\ UNCHANGED <<files, dfs, pool, inTxn, work, dropIdx, committed, out,
                   prior, prevDone, lastDone, runs>>

\* create_engine raises (the psycopg2 driver named by DB_URL cannot be imported).
CreateEngineFail ==
    /\ At("create_engine")
    /\ Raise
    /\ UNCHANGED <<files, dfs, engine, pool, inTxn, work, dropIdx, committed, out,
                   prior, prevDone, lastDone, runs>>

\* print(...)
PrintLine ==
    /\ At("print")
    /\ out' = Append(out, Cur.mode)
    /\ Advance
    /\ UNCHANGED <<files, dfs, engine, pool, inTxn, work, dropIdx, committed,
                   prior, prevDone, lastDone, runs>>

\* df_x = pd.read_csv(CSV_PATHS[key])
ReadCsvOk ==
    /\ At("read_csv")
    /\ CanRead(files[Cur.key])
    /\ dfs' = [dfs EXCEPT ![FrameOf[Cur.key]] = ReadCsv(files[Cur.key])]
    /\ Advance
    /\ UNCHANGED <<files, engine, pool, inTxn, work, dropIdx, committed, out,
                   prior, prevDone, lastDone, runs>>

\* pd.read_csv raises FileNotFoundError or EmptyDataError.
ReadCsvFail ==
    /\ At("read_csv")
    /\ ~CanRead(files[Cur.key])
    /\ Raise
    /\ UNCHANGED <<files, dfs, engine, pool, inTxn, work, dropIdx, committed, out,
                   prior, prevDone, lastDone, runs>>

\* with engine.begin() as conn: the pool opens its first connection (or hands
\* out an idle one) and a transaction begins on it.
Begin ==
    /\ At("begin")
    /\ engine
    /\ pool' = [open |-> IF pool.open = 0 THEN 1 ELSE pool.open, checkedOut |-> 1]
    /\ inTxn' = TRUE
    /\ work' = committed
    /\ Advance
    /\ UNCHANGED <<files, dfs, engine, dropIdx, committed, out,
                   prior, prevDone, lastDone, runs>>

\* The pool cannot open a connection: store unreachable or credentials refused.
BeginFail ==
    /\ At("begin")
    /\ pool.open = 0
    /\ Raise
    /\ UNCHANGED <<files, dfs, engine, pool, inTxn, work, dropIdx, committed, out,
                   prior, prevDone, lastDone, runs>>

\* An exception leaves the with block: the transaction is rolled back and the
\* connection goes back to the pool, where it stays open.
Rollback ==
    /\ work' = committed
    /\ inTxn' = FALSE
    /\ pool' = [pool EXCEPT !.checkedOut = 0]
    /\ UNCHANGED committed

\* conn.execute(text("CREATE SCHEMA IF NOT EXISTS staging;"))
CreateSchema ==
    /\ At("create_schema")
    /\ inTxn
    /\ work' = [work EXCEPT !.schema = TRUE]
    /\ Advance
    /\ UNCHANGED <<files, dfs, engine, pool, inTxn, dropIdx, committed, out,
                   prior, prevDone, lastDone, runs>>

\* A variant in which the failure of CREATE SCHEMA is caught and ignored.
CreateSchemaFailSwallowed ==
    /\ At("create_schema")
    /\ inTxn
    /\ pc' = pc + 1
    /\ log' = Append(log, Entry(FALSE))
    /\ UNCHANGED <<files, status, dfs, engine, pool, inTxn, work, dropIdx, committed,
                   out, prior, prevDone, lastDone, runs>>

\* CREATE SCHEMA raises (permission denied).
CreateSchemaFail ==
    /\ At("create_schema")
    /\ inTxn
    /\ Rollback
    /\ Raise
    /\ UNCHANGED <<files, dfs, engine, dropIdx, out, prior, prevDone, lastDone, runs>>

\* A variant in which every table of the list is dropped in a statement,
\* and a transaction, of its own.
ExecDropOneAutocommit ==
    /\ At("drop_tables")
    /\ inTxn
    /\ dropIdx <= Len(Cur.tables)
    /\ work' = DropTable(work, Cur.tables[dropIdx])
    /\ committed' = DropTable(committed, Cur.tables[dropIdx])
    /\ dropIdx' = dropIdx + 1
    /\ UNCHANGED <<files, pc, status, dfs, engine, pool, inTxn, out, log,
                   prior, prevDone, lastDone, runs>>

\* DROP TABLE IF EXISTS a, b, c CASCADE: the server drops the listed tables
\* one after the other inside the open transaction.
ExecDropOne ==
    /\ At("drop_tables")
    /\ inTxn
    /\ dropIdx <= Len(Cur.tables)
    /\ CanDrop(work, Cur.tables[dropIdx], Cur.mode = "cascade")
    /\ work' = DropTable(work, Cur.tables[dropIdx])
    /\ dropIdx' = dropIdx + 1
    /\ UNCHANGED <<files, pc, status, dfs, engine, pool, inTxn, committed, out, log,
                   prior, prevDone, lastDone, runs>>

\* The DROP TABLE statement returns.
ExecDropDone ==
    /\ At("drop_tables")
    /\ inTxn
    /\ dropIdx > Len(Cur.tables)
    /\ Advance
    /\ UNCHANGED <<files, dfs, engine, pool, inTxn, work, dropIdx, committed, out,
                   prior, prevDone, lastDone, runs>>

\* DROP TABLE raises at one of its tables (lock not granted, statement
\* cancelled, dependent object without CASCADE).
ExecDropFail ==
    /\ At("drop_tables")
    /\ inTxn
    /\ dropIdx <= Len(Cur.tables)
    /\ Rollback
    /\ Raise
    /\ UNCHANGED <<files, dfs, engine, dropIdx, out, prior, prevDone, lastDone, runs>>

\* The with block ends normally: the transaction commits and the connection
\* goes back to the pool.
Commit ==
    /\ At("commit")
    /\ inTxn
    /\ committed' = work
    /\ inTxn' = FALSE
    /\ pool' = [pool EXCEPT !.checkedOut = 0]
    /\ Advance
    /\ UNCHANGED <<files, dfs, engine, work, dropIdx, out,
                   prior, prevDone, lastDone, runs>>

\* df.to_sql(table, engine, schema="staging", if_exists=mode, index=False):
\* on a connection of the pool, in a transaction of its own, the table found
\* under that name is dropped (replace) and the frame is written.
ToSqlOk ==
    /\ At("to_sql")
    /\ engine
    /\ dfs[FrameOf[Cur.key]].loaded
    /\ committed.schema
    /\ LET t == Cur.table
           existing == committed.tables[t]
       IN  /\ (Cur.mode = "replace" => CanDrop(committed, t, FALSE))
           /\ committed' = [committed EXCEPT
                  !.tables[t] = ToSql(existing, dfs[FrameOf[Cur.key]], Cur.mode, FALSE)]
    /\ work' = committed'
    /\ pool' = [open |-> IF pool.open = 0 THEN 1 ELSE pool.open, checkedOut |-> 0]
    /\ Advance
    /\ UNCHANGED <<files, dfs, engine, inTxn, dropIdx, out,
                   prior, prevDone, lastDone, runs>>

\* A variant in which the failure of an upload is caught and ignored.
ToSqlFailSwallowed ==
    /\ At("to_sql")
    /\ pc' = pc + 1
    /\ status' = IF pc = Len(Program) THEN "done" ELSE "running"
    /\ log' = Append(log, Entry(FALSE))
    /\ UNCHANGED <<files, dfs, engine, pool, inTxn, work, dropIdx, committed, out,
                   prior, prevDone, lastDone, runs>>

\* to_sql raises (type conflict, disk full, connection lost).  Depending on
\* the pandas release the whole call is one transaction, which is rolled
\* back, or CREATE TABLE was committed before the INSERT failed, which
\* leaves the new table empty.
ToSqlFail ==
    /\ At("to_sql")
    /\ \E leaveEmpty \in BOOLEAN :
         LET t == Cur.table
             existing == committed.tables[t]
         IN  committed' =
               IF /\ leaveEmpty
                  /\ committed.schema
                  /\ dfs[FrameOf[Cur.key]].loaded
                  /\ (Cur.mode = "replace" \/ ~existing.exists)
                  /\ CanDrop(committed, t, FALSE)
               THEN [committed EXCEPT
                        !.tables[t] = CreatedEmpty(dfs[FrameOf[Cur.key]], FALSE)]
               ELSE committed
    /\ work' = committed'
    /\ Raise
    /\ UNCHANGED <<files, dfs, engine, pool, inTxn, dropIdx, out,
                   prior, prevDone, lastDone, runs>>

\* The script is started again, as a new process, on the same files and the
\* same store.
StartRun ==
    /\ status \in {"done", "aborted"}
    /\ runs < MaxRuns
    /\ runs' = runs + 1
    /\ prevDone' = (status = "done")
    /\ lastDone' = committed
    /\ prior' = committed
    /\ work' = committed
    /\ pc' = 1
    /\ status' = "running"
    /\ dfs' = NoFrames
    /\ engine' = FALSE
    /\ pool' = EmptyPool
    /\ inTxn' = FALSE
    /\ dropIdx' = 1
    /\ out' = <<>>
    /\ log' = <<>>
    /\ UNCHANGED <<files, committed>>

Next ==
    \/ CreateEngine
    \/ CreateEngineFail
    \/ PrintLine
    \/ ReadCsvOk
    \/ ReadCsvFail
    \/ Begin
    \/ BeginFail
    \/ CreateSchema
    \/ CreateSchemaFail
    \/ ExecDropOne
    \/ ExecDropDone
    \/ ExecDropFail
    \/ Commit
    \/ ToSqlOk
    \/ ToSqlFail
    \/ StartRun

Spec == Init /\ [][Next]_vars

TypeOK ==
    /\ pc \in 1..(Len(Program) + 1)
    /\ status \in {"running", "done", "aborted"}
    /\ pool.open \in 0..1 /\ pool.checkedOut \in 0..pool.open
    /\ runs \in 1..MaxRuns
    /\ StoreOk(committed)
    /\ (~inTxn => work = committed)

-----------------------------------------------------------------------------
\* Properties

Range(q) == {q[i] : i \in 1..Len(q)}

\* The run printed its final line.
Succeeded == SuccessMsg \in Range(out)

\* The table that holds exactly the header and the data lines of the file of key k.
SourceTable(k) ==
    [exists |-> TRUE,
     cols   |-> files[k].lines[1],
     rows   |-> SubSeq(files[k].lines, 2, Len(files[k].lines))]

\* The steps of the log that failed in one of the given phases.
Failed(phases) == {i \in 1..Len(log) : ~log[i].ok /\ log[i].phase \in phases}

\* The log holds a successful execution of a statement op for key k.
Did(op, k) ==
    \E i \in 1..Len(log) :
        log[i].ok /\ Program[log[i].stmt].op = op /\ Program[log[i].stmt].key = k

\* C1: after a successful run, every key of CSV_PATHS has a destination
\* table in schema staging that holds exactly the columns and the rows of
\* the key's source file.
C1_Completeness ==
    Succeeded =>
        \A k \in CSV_PATHS :
            /\ k \in DOMAIN DestOf
            /\ committed.schema
            /\ committed.tables[DestOf[k]] = SourceTable(k)

\* C2: after a successful run, whatever the store held before, the tables of
\* schema staging are exactly the destination tables, each holding its
\* source, and no other table is left there.
C2_ExactlyDestinationTables ==
    Succeeded =>
        /\ {t \in StagingTables : committed.tables[t].exists} = DestTables
        /\ \A k \in DOMAIN DestOf : committed.tables[DestOf[k]] = SourceTable(k)

\* C3: when a run succeeds right after a run that succeeded on the same
\* files, the store holds the same tables, with the same columns and the
\* same rows, as at the end of the earlier run.
C3_Idempotent ==
    (Succeeded /\ prevDone) =>
        /\ committed.schema = lastDone.schema
        /\ \A t \in AllTables : committed.tables[t] = lastDone.tables[t]

C3_Witness ==
    /\ Succeeded /\ prevDone /\ runs = 2
    /\ \E t \in DestTables : Len(committed.tables[t].rows) > 0
    /\ prior.tables[OrphanTable].exists

\* The definition of a table: its columns and rows, and its constraints.
TableDef(s, t) ==
    [table |-> s.tables[t], fks |-> IF t = OutsideTable THEN s.fks ELSE {}]

C5_AtomicDrop ==
    [][ (\E t \in DestTables : committed.tables[t].exists /\ ~committed'.tables[t].exists)
          => (\A t \in DestTables : ~committed'.tables[t].exists) ]_vars

C5_Witness ==
    /\ status = "aborted"
    /\ Failed({"drop"}) # {}
    /\ dropIdx = 3
    /\ \A t \in DestTables : prior.tables[t].exists /\ committed.tables[t] = prior.tables[t]

C7_NoPartialVisibility ==
    \A k \in DOMAIN DestOf :
        \/ committed.tables[DestOf[k]] = prior.tables[DestOf[k]]
        \/ CanRead(files[k]) /\ committed.tables[DestOf[k]] = SourceTable(k)

\* C8: when a run has ended, successfully or not, no connection to the
\* store is open.
C8_ConnectionClosed ==
    status \in {"done", "aborted"} => (pool.open = 0 /\ pool.checkedOut = 0)

\* C9: once the connection or the schema creation has failed, the store is
\* exactly as it was when the run started.
C9_ConnectNamespaceFailureNoMutation ==
    Failed({"connect", "namespace"}) # {} => committed = prior

C9_Witness ==
    /\ status = "aborted"
    /\ Failed({"namespace"}) # {}
    /\ ~prior.schema
    /\ committed = prior

\* C10: the store is touched, and a connection opened, only after every
\* loaded file has been read; once a read has failed the store is exactly
\* as it was when the run started.
C10_ReadsBeforeMutation ==
    /\ (inTxn \/ pool.open > 0 \/ committed # prior) => \A v \in DOMAIN dfs : dfs[v].loaded
    /\ Failed({"read"}) # {} => (committed = prior /\ pool.open = 0)

C10_Witness ==
    /\ status = "aborted"
    /\ Failed({"read"}) # {}
    /\ dfs["df_tx"].loaded /\ dfs["df_spend"].loaded /\ ~dfs["df_promo"].loaded
    /\ \A t \in DestTables : prior.tables[t].exists
    /\ committed = prior

====
